---- MODULE Spec2Model ----
(***************************************************************************)
(* Model of EnvChanger.py: the customer / environment / type selector and  *)
(* its Change button (on_change), together with the prerequisite version   *)
(* reconciliation engine that the specification describes.                 *)
(*                                                                         *)
(* Strings that the program takes apart (version strings) are sequences of *)
(* one-character strings, so that split('.') is computed, not assumed.     *)
(* Strings that the program only compares or passes on are TLA+ strings.   *)
(***************************************************************************)
EXTENDS Integers, Sequences, FiniteSets, TLC

VARIABLES customer_var, environment_var, type_var, environment_values, call,
          alpha, focus, mouse_inside,
          rstate, required, installed, log, firstInstall, lastCompat, callerRan

selVars == <<customer_var, environment_var, type_var, environment_values, call>>
winVars == <<alpha, focus, mouse_inside>>
guiVars == <<customer_var, environment_var, type_var, environment_values, call,
             alpha, focus, mouse_inside>>
recVars == <<rstate, required, installed, log, firstInstall, lastCompat, callerRan>>
vars == <<customer_var, environment_var, type_var, environment_values, call,
          alpha, focus, mouse_inside,
          rstate, required, installed, log, firstInstall, lastCompat, callerRan>>

(***************************************************************************)
(* Values                                                                  *)
(***************************************************************************)
\* Python's None as a version value (YAML null); no character sequence.
None == <<"<None>">>

\* The registry holds no entry for the prerequisite package.
NotFound == <<"<NotFound>">>

\* ps_command before any branch of on_change has assigned it.
Unbound == <<"<unbound>">>

\* Version strings of the configuration, character by character.
V_23_1_3_3 == <<"2", "3", ".", "1", ".", "3", ".", "3">>
V_23 == <<"2", "3">>
V_5_8_22 == <<"5", ".", "8", ".", "2", "2">>
V_22_9 == <<"2", "2", ".", "9">>
V_20_0 == <<"2", "0", ".", "0">>
V_19_9 == <<"1", "9", ".", "9">>
V_0_1 == <<"0", ".", "1">>
V_neg1_0 == <<"-", "1", ".", "0">>
V_abc_1 == <<"a", "b", "c", ".", "1">>
V_empty == <<>>

\* Attribute mappings of the configuration (a dict is a function on its keys).
A_none == [k \in {} |-> ""]
A_app == [k \in {"appservice"} |-> "AppSvc1"]
A_app_emptypath == [k \in {"appservice", "install_path"} |->
                      IF k = "appservice" THEN "AppSvc1" ELSE ""]
A_app_path == [k \in {"appservice", "install_path"} |->
                 IF k = "appservice" THEN "AppSvc1" ELSE "D:\\App"]
A_path == [k \in {"install_path"} |-> "D:\\App"]
A_qdrive == [k \in {"qdrive"} |-> "Q:\\Share"]
A_all == [k \in {"appservice", "install_path", "qdrive"} |->
            IF k = "appservice" THEN "AppSvc1"
            ELSE IF k = "install_path" THEN "D:\\App" ELSE "Q:\\Share"]

Env(n, v, a) == [name |-> n, version |-> v, attributes |-> a]

\* The loaded Config.yaml: customers, each with its ordered environments.
config ==
  [customers |-> <<
     [name |-> "Acme", environments |-> <<
        Env("Prod", V_23_1_3_3, A_app),
        Env("ProdPath", V_23_1_3_3, A_app_path),
        Env("ProdEmptyPath", V_23, A_app_emptypath),
        Env("ProdPathOnly", V_23_1_3_3, A_path),
        Env("ProdBare", V_23, A_none),
        Env("Legacy", V_5_8_22, A_qdrive),
        Env("LegacyBare", V_5_8_22, A_none),
        Env("Prev", V_22_9, A_all),
        Env("Edge", V_20_0, A_app),
        Env("Blank", V_empty, A_all),
        Env("Null", None, A_qdrive)
     >>],
     [name |-> "Beta", environments |-> <<
        Env("Prod", V_19_9, A_qdrive),
        Env("Zero", V_0_1, A_all),
        Env("Neg", V_neg1_0, A_qdrive),
        Env("Bad", V_abc_1, A_all),
        Env("Prod", V_23_1_3_3, A_app_path)
     >>],
     [name |-> "Gamma", environments |-> <<
        [name |-> "Prod", version |-> V_23_1_3_3, attributes |-> A_app,
         Workstation |-> "deploy.ps1"]
     >>],
     [name |-> "Empty", environments |-> <<>>]
  >>]

Types == <<"Workstation", "Interface", "Service">>

Range(s) == {s[i] : i \in 1..Len(s)}

(***************************************************************************)
(* YAML + LOGIC                                                            *)
(***************************************************************************)
RECURSIVE FirstCustomer(_, _)
FirstCustomer(customers, customer_name) ==
  IF customers = <<>> THEN <<>>
  ELSE IF Head(customers).name = customer_name THEN Head(customers).environments
  ELSE FirstCustomer(Tail(customers), customer_name)

get_customer_environments(cfg, customer_name) ==
  FirstCustomer(cfg.customers, customer_name)

\* The scan with the last matching environment winning.
RECURSIVE FirstEnvField_LastMatch(_, _, _, _)
FirstEnvField_LastMatch(environments, environment_name, field, default) ==
  IF environments = <<>> THEN default
  ELSE IF environments[Len(environments)].name = environment_name
       THEN environments[Len(environments)][field]
  ELSE FirstEnvField_LastMatch(SubSeq(environments, 1, Len(environments) - 1),
                               environment_name, field, default)

RECURSIVE FirstEnvField(_, _, _, _)
FirstEnvField(environments, environment_name, field, default) ==
  IF environments = <<>> THEN default
  ELSE IF Head(environments).name = environment_name THEN Head(environments)[field]
  ELSE FirstEnvField(Tail(environments), environment_name, field, default)

get_environment_version(cfg, customer_name, environment_name) ==
  FirstEnvField(get_customer_environments(cfg, customer_name),
                environment_name, "version", None)

get_environment_attributes(cfg, customer_name, environment_name) ==
  FirstEnvField(get_customer_environments(cfg, customer_name),
                environment_name, "attributes", A_none)

\* dict.get(key, '')
Get(attributes, key) == IF key \in DOMAIN attributes THEN attributes[key] ELSE ""

\* Truthiness tested as "is not None" only: '' passes.
Truthy_NotNoneOnly(version) == version # None

\* Python truthiness of a version value: None and '' are falsy.
Truthy(version) == version # None /\ version # <<>>

\* version.split('.')[0]: the characters before the first '.'.
RECURSIVE SplitFirst(_)
SplitFirst(s) ==
  IF s = <<>> THEN <<>>
  ELSE IF Head(s) = "." THEN <<>>
  ELSE <<Head(s)>> \o SplitFirst(Tail(s))

\* A character sequence as one string.
RECURSIVE Str(_)
Str(s) == IF s = <<>> THEN "" ELSE Head(s) \o Str(Tail(s))

\* The script name with an "unknown" stand-in for a major that is no number.
ScriptName_Sentinel(major_version, selected_type) ==
  IF /\ major_version # <<>>
     /\ \A i \in 1..Len(major_version) :
          major_version[i] \in {"0", "1", "2", "3", "4", "5", "6", "7", "8", "9"}
  THEN Str(major_version) \o "_" \o selected_type \o ".ps1"
  ELSE "unknown_" \o selected_type \o ".ps1"

\* f"{major_version}_{selected_type}.ps1"
ScriptName(major_version, selected_type) ==
  Str(major_version) \o "_" \o selected_type \o ".ps1"

\* BuildCommand with the install_path test dropped: -InstallPath always passed.
BuildCommand_AlwaysInstallPath(selected_type, major_version, script_name, selected_customer, selected_environment, attributes) ==
  LET base == <<"powershell", "-File", script_name,
                "-CustomerName", selected_customer,
                "-Environment", selected_environment>>
  IN IF selected_type = "Workstation" THEN
       IF Str(major_version) = "23" THEN
         base \o <<"-AppService", Get(attributes, "appservice"),
                   "-InstallPath", Get(attributes, "install_path")>>
       ELSE IF Str(major_version) = "5" THEN
         base \o <<"-QDrive", Get(attributes, "qdrive")>>
       ELSE Unbound
     ELSE base \o <<"-QDrive", Get(attributes, "qdrive")>>

\* BuildCommand with the legacy Workstation branch passing the wrong attribute.
BuildCommand_LegacyAppService(selected_type, major_version, script_name, selected_customer, selected_environment, attributes) ==
  LET base == <<"powershell", "-File", script_name,
                "-CustomerName", selected_customer,
                "-Environment", selected_environment>>
  IN IF selected_type = "Workstation" THEN
       IF Str(major_version) = "23" THEN
         IF Get(attributes, "install_path") = "" THEN
           base \o <<"-AppService", Get(attributes, "appservice")>>
         ELSE
           base \o <<"-AppService", Get(attributes, "appservice"),
                     "-InstallPath", Get(attributes, "install_path")>>
       ELSE IF Str(major_version) = "5" THEN
         base \o <<"-AppService", Get(attributes, "appservice")>>
       ELSE Unbound
     ELSE base \o <<"-QDrive", Get(attributes, "qdrive")>>

\* BuildCommand with Service nested under the version test of Workstation.
BuildCommand_ServiceByVersion(selected_type, major_version, script_name, selected_customer, selected_environment, attributes) ==
  LET base == <<"powershell", "-File", script_name,
                "-CustomerName", selected_customer,
                "-Environment", selected_environment>>
  IN IF selected_type \in {"Workstation", "Service"} THEN
       IF Str(major_version) = "23" THEN
         IF Get(attributes, "install_path") = "" THEN
           base \o <<"-AppService", Get(attributes, "appservice")>>
         ELSE
           base \o <<"-AppService", Get(attributes, "appservice"),
                     "-InstallPath", Get(attributes, "install_path")>>
       ELSE IF Str(major_version) = "5" THEN
         base \o <<"-QDrive", Get(attributes, "qdrive")>>
       ELSE Unbound
     ELSE base \o <<"-QDrive", Get(attributes, "qdrive")>>

\* The branches of on_change that assign ps_command (lines 145-195).
BuildCommand(selected_type, major_version, script_name, selected_customer, selected_environment, attributes) ==
  LET base == <<"powershell", "-File", script_name,
                "-CustomerName", selected_customer,
                "-Environment", selected_environment>>
  IN IF selected_type = "Workstation" THEN
       IF Str(major_version) = "23" THEN
         IF Get(attributes, "install_path") = "" THEN
           base \o <<"-AppService", Get(attributes, "appservice")>>
         ELSE
           base \o <<"-AppService", Get(attributes, "appservice"),
                     "-InstallPath", Get(attributes, "install_path")>>
       ELSE IF Str(major_version) = "5" THEN
         base \o <<"-QDrive", Get(attributes, "qdrive")>>
       ELSE Unbound
     ELSE IF selected_type = "Interface" THEN
       base \o <<"-QDrive", Get(attributes, "qdrive")>>
     ELSE IF selected_type = "Service" THEN
       base \o <<"-QDrive", Get(attributes, "qdrive")>>
     ELSE Unbound

\* What subprocess.run can do with a command: exit 0, exit non-zero
\* (CalledProcessError under check=True), or fail to start (OSError).
RunOutcomes == {"exit0", "nonzero", "oserror"}

NoCall == [outcome |-> "none", customer |-> "", environment |-> "", type |-> "",
           exists |-> FALSE, ps_command |-> Unbound, ran |-> <<>>, messages |-> <<>>,
           exit |-> "none"]

\* on_change with one slip, named by variant: "no_exists_check" runs the
\* script without testing os.path.exists, "retry" runs a failed script a
\* second time, "no_selection_check" drops the test of the three selections.
OnChangeVariant(selected_customer, selected_environment, selected_type, exists, run, variant) ==
  LET version == get_environment_version(config, selected_customer, selected_environment)
      attributes == get_environment_attributes(config, selected_customer, selected_environment)
      major_version == SplitFirst(version)
      script_name == ScriptName(major_version, selected_type)
      ps_command == BuildCommand(selected_type, major_version, script_name,
                                 selected_customer, selected_environment, attributes)
      r == [NoCall EXCEPT !.customer = selected_customer,
                          !.environment = selected_environment,
                          !.type = selected_type]
  IN IF /\ variant # "no_selection_check"
        /\ (selected_customer = "" \/ selected_environment = "" \/ selected_type = "") THEN
       [r EXCEPT !.outcome = "returned",
                 !.messages = <<"Please select all options!">>]
     ELSE IF ~Truthy(version) THEN
       [r EXCEPT !.outcome = "returned", !.messages = <<"Version not found!">>]
     ELSE IF ~exists /\ variant # "no_exists_check" THEN
       [r EXCEPT !.outcome = "returned",
                 !.messages = <<"Script not found: " \o script_name>>]
     ELSE IF ps_command = Unbound THEN
       [r EXCEPT !.outcome = "UnboundLocalError", !.exists = exists]
     ELSE IF run = "exit0" THEN
       [r EXCEPT !.outcome = "returned", !.exists = exists, !.exit = run,
                 !.ps_command = ps_command, !.ran = <<ps_command>>]
     ELSE IF run = "nonzero" THEN
       [r EXCEPT !.outcome = "returned", !.exists = exists, !.exit = run,
                 !.ps_command = ps_command,
                 !.ran = IF variant = "retry" THEN <<ps_command, ps_command>>
                         ELSE <<ps_command>>,
                 !.messages = <<"Error running script">>]
     ELSE
       [r EXCEPT !.outcome = "OSError", !.exists = exists, !.exit = run,
                 !.ps_command = ps_command, !.ran = <<ps_command>>]

OnChangeResult_NoExistsCheck(selected_customer, selected_environment, selected_type, exists, run) ==
  OnChangeVariant(selected_customer, selected_environment, selected_type, exists, run,
                  "no_exists_check")

OnChangeResult_Retry(selected_customer, selected_environment, selected_type, exists, run) ==
  OnChangeVariant(selected_customer, selected_environment, selected_type, exists, run,
                  "retry")

OnChangeResult_NoSelectionCheck(selected_customer, selected_environment, selected_type, exists, run) ==
  OnChangeVariant(selected_customer, selected_environment, selected_type, exists, run,
                  "no_selection_check")

\* One run of on_change, as the record of what it did: the selection it read,
\* what os.path.exists answered, the command it built, the commands handed to
\* subprocess.run, how the process ended, the error boxes shown, and how the
\* handler ended.
OnChangeResult(selected_customer, selected_environment, selected_type, exists, run) ==
  LET version == get_environment_version(config, selected_customer, selected_environment)
      attributes == get_environment_attributes(config, selected_customer, selected_environment)
      major_version == SplitFirst(version)
      script_name == ScriptName(major_version, selected_type)
      ps_command == BuildCommand(selected_type, major_version, script_name,
                                 selected_customer, selected_environment, attributes)
      r == [NoCall EXCEPT !.customer = selected_customer,
                          !.environment = selected_environment,
                          !.type = selected_type]
  IN IF selected_customer = "" \/ selected_environment = "" \/ selected_type = "" THEN
       [r EXCEPT !.outcome = "returned",
                 !.messages = <<"Please select all options!">>]
     ELSE IF ~Truthy(version) THEN
       [r EXCEPT !.outcome = "returned", !.messages = <<"Version not found!">>]
     ELSE IF ~exists THEN
       [r EXCEPT !.outcome = "returned",
                 !.messages = <<"Script not found: " \o script_name>>]
     ELSE IF ps_command = Unbound THEN
       [r EXCEPT !.outcome = "UnboundLocalError", !.exists = TRUE]
     ELSE IF run = "exit0" THEN
       [r EXCEPT !.outcome = "returned", !.exists = TRUE, !.exit = run,
                 !.ps_command = ps_command, !.ran = <<ps_command>>]
     ELSE IF run = "nonzero" THEN
       [r EXCEPT !.outcome = "returned", !.exists = TRUE, !.exit = run,
                 !.ps_command = ps_command, !.ran = <<ps_command>>,
                 !.messages = <<"Error running script">>]
     ELSE
       [r EXCEPT !.outcome = "OSError", !.exists = TRUE, !.exit = run,
                 !.ps_command = ps_command, !.ran = <<ps_command>>]

(***************************************************************************)
(* Handlers                                                                *)
(***************************************************************************)
EnvironmentNames(environments) ==
  [i \in 1..Len(environments) |-> environments[i].name]

\* populate_environment_dropdown without the reset of the selected environment.
populate_environment_dropdown_KeepEnvironment ==
  \E i \in 1..Len(config.customers) :
    LET selected_customer == config.customers[i].name
    IN /\ customer_var' = selected_customer
       /\ environment_values' =
            EnvironmentNames(get_customer_environments(config, selected_customer))
       /\ UNCHANGED <<environment_var, type_var, call>>
       /\ UNCHANGED winVars
       /\ UNCHANGED recVars

\* <<ComboboxSelected>> on the customer dropdown: the widget stores the chosen
\* value, then populate_environment_dropdown runs.
populate_environment_dropdown ==
  \E i \in 1..Len(config.customers) :
    LET selected_customer == config.customers[i].name
    IN /\ customer_var' = selected_customer
       /\ IF selected_customer = ""
          THEN UNCHANGED <<environment_values, environment_var>>
          ELSE /\ environment_values' =
                    EnvironmentNames(get_customer_environments(config, selected_customer))
               /\ environment_var' = ""
       /\ UNCHANGED <<type_var, call>>
       /\ UNCHANGED winVars
       /\ UNCHANGED recVars

\* The user picks one of the values the environment dropdown offers.
SelectEnvironment ==
  \E e \in Range(environment_values) :
    /\ environment_var' = e
    /\ UNCHANGED <<customer_var, type_var, environment_values, call>>
    /\ UNCHANGED winVars
    /\ UNCHANGED recVars

\* The user picks one of the three types.
SelectType ==
  \E t \in Range(Types) :
    /\ type_var' = t
    /\ UNCHANGED <<customer_var, environment_var, environment_values, call>>
    /\ UNCHANGED winVars
    /\ UNCHANGED recVars

\* on_change with a reconciliation pass before the command is run.
on_change_Reconciling ==
  \E exists \in BOOLEAN, run \in RunOutcomes :
    /\ call' = OnChangeResult(customer_var, environment_var, type_var, exists, run)
    /\ UNCHANGED <<customer_var, environment_var, type_var, environment_values>>
    /\ UNCHANGED winVars
    /\ IF call'.ran # <<>>
       THEN /\ rstate' = "SATISFIED"
            /\ log' = <<"query">>
            /\ UNCHANGED <<required, installed, firstInstall, lastCompat, callerRan>>
       ELSE UNCHANGED recVars

\* The Change button.
on_change ==
  \E exists \in BOOLEAN, run \in RunOutcomes :
    /\ call' = OnChangeResult(customer_var, environment_var, type_var, exists, run)
    /\ UNCHANGED <<customer_var, environment_var, type_var, environment_values>>
    /\ UNCHANGED winVars
    /\ UNCHANGED recVars

(***************************************************************************)
(* STEALTH WINDOW FUNCTIONS                                                *)
(***************************************************************************)
\* root.attributes("-alpha", ...) in hundredths: 1.0 and 0.01.
AlphaShown == 100
AlphaHidden == 1

\* What root.focus_get() can give: no widget (the focus is in another
\* application), one of the three comboboxes, the popup list of an open
\* combobox, or another widget of the window.
NoFocus == "<None>"
Comboboxes == {"customer_dropdown", "environment_dropdown", "type_dropdown"}
Popdowns == {"combobox.popdown"}
OtherWidgets == {"change_button"}
FocusValues == {NoFocus} \cup Comboboxes \cup Popdowns \cup OtherWidgets

\* is_in_combobox_focus without the popup test.
is_in_combobox_focus_NoPopdown(focus_widget) ==
  IF focus_widget = NoFocus THEN FALSE
  ELSE focus_widget \in Comboboxes

\* A popup is recognised by "popdown" in its name, or by the KeyError /
\* TclError of looking it up; both ways the answer is True.
is_in_combobox_focus(focus_widget) ==
  IF focus_widget = NoFocus THEN FALSE
  ELSE IF focus_widget \in Popdowns THEN TRUE
  ELSE focus_widget \in Comboboxes

\* The -alpha that the body of on_enter leaves.
EnterAlpha(focus_widget, a) ==
  IF ~is_in_combobox_focus(focus_widget) THEN AlphaShown ELSE a

\* The -alpha that the body of on_leave leaves.
LeaveAlpha(focus_widget, a) ==
  IF ~is_in_combobox_focus(focus_widget) THEN AlphaHidden ELSE a

\* The -alpha that the body of on_combobox_unfocus leaves.
UnfocusAlpha(focus_widget, a) ==
  IF ~is_in_combobox_focus(focus_widget) THEN LeaveAlpha(focus_widget, a) ELSE a

\* <Enter> on root: the pointer comes into the window, or into one of its
\* widgets (a binding on the toplevel also serves its descendants).
on_enter ==
  /\ mouse_inside' = TRUE
  /\ alpha' = EnterAlpha(focus, alpha)
  /\ UNCHANGED focus
  /\ UNCHANGED selVars
  /\ UNCHANGED recVars

\* <Leave> on root: the pointer goes out of the window, or out of one of its
\* widgets while staying in the window.
on_leave ==
  /\ mouse_inside
  /\ \E stays \in BOOLEAN : mouse_inside' = stays
  /\ alpha' = LeaveAlpha(focus, alpha)
  /\ UNCHANGED focus
  /\ UNCHANGED selVars
  /\ UNCHANGED recVars

\* <Button-1> on a combobox: the handler shows the window; the click gives
\* the combobox the focus (a FocusOut of another combobox then finds the
\* focus on this one and changes nothing).
on_combobox_click ==
  /\ mouse_inside
  /\ \E cb \in Comboboxes : focus' = cb
  /\ alpha' = AlphaShown
  /\ UNCHANGED mouse_inside
  /\ UNCHANGED selVars
  /\ UNCHANGED recVars

\* <FocusOut> on a combobox: the focus has gone from it to w.
on_combobox_unfocus ==
  /\ focus \in Comboboxes
  /\ \E w \in FocusValues \ {focus} : focus' = w
  /\ alpha' = UnfocusAlpha(focus', alpha)
  /\ UNCHANGED mouse_inside
  /\ UNCHANGED selVars
  /\ UNCHANGED recVars

\* The focus moves from a widget that has no FocusOut binding.
FocusChange ==
  /\ focus \notin Comboboxes
  /\ \E w \in FocusValues \ {focus} : focus' = w
  /\ UNCHANGED <<alpha, mouse_inside>>
  /\ UNCHANGED selVars
  /\ UNCHANGED recVars

Init ==
  /\ customer_var = ""
  /\ environment_var = ""
  /\ type_var = ""
  /\ environment_values = <<>>
  /\ call = NoCall
  /\ alpha = AlphaHidden
  /\ focus = NoFocus
  /\ mouse_inside = FALSE
  /\ rstate = "IDLE"
  /\ required = None
  /\ installed = NotFound
  /\ log = <<>>
  /\ firstInstall = None
  /\ lastCompat = FALSE
  /\ callerRan = FALSE

Next ==
  \/ populate_environment_dropdown
  \/ SelectEnvironment
  \/ SelectType
  \/ on_change
  \/ on_enter
  \/ on_leave
  \/ on_combobox_click
  \/ on_combobox_unfocus
  \/ FocusChange

Spec == Init /\ [][Next]_vars

(***************************************************************************)
(* Prerequisite reconciliation (specification sections 4.1 and 4.2)        *)
(***************************************************************************)
\* An integer literal: optional minus sign, then one or more digits.
Digits == {"0", "1", "2", "3", "4", "5", "6", "7", "8", "9"}
DigitVal(c) ==
  CASE c = "0" -> 0 [] c = "1" -> 1 [] c = "2" -> 2 [] c = "3" -> 3 [] c = "4" -> 4
    [] c = "5" -> 5 [] c = "6" -> 6 [] c = "7" -> 7 [] c = "8" -> 8 [] c = "9" -> 9
IsInt(s) ==
  LET body == IF s # <<>> /\ Head(s) = "-" THEN Tail(s) ELSE s
  IN body # <<>> /\ \A i \in 1..Len(body) : body[i] \in Digits
RECURSIVE NatVal(_)
NatVal(s) == IF s = <<>> THEN 0 ELSE 10 * NatVal(SubSeq(s, 1, Len(s) - 1)) + DigitVal(s[Len(s)])
IntVal(s) == IF Head(s) = "-" THEN 0 - NatVal(Tail(s)) ELSE NatVal(s)

\* Bound on the recorded history of one reconciliation; the loop itself is
\* not bounded, the record just stops growing.
MaxLog == 7

\* Required versions handed to the Reconciler, and versions the registry can report.
ReqVersions == {V_23_1_3_3, V_20_0, V_19_9, V_5_8_22, V_0_1, V_neg1_0, V_abc_1}
RegVersions == ReqVersions \cup {V_22_9}

\* Major version of a version string: the integer before the first '.', or
\* the explicit "unknown" value when that segment is no integer.
UnknownMajor == [known |-> FALSE, major |-> 0]
MajorVersion(v) ==
  IF IsInt(SplitFirst(v)) THEN [known |-> TRUE, major |-> IntVal(SplitFirst(v))]
  ELSE UnknownMajor

Bucket(major) == IF major < 20 THEN "legacy" ELSE "current"

\* compatible with the boundary value 20 put in the legacy bucket.
compatible_Boundary21(req, inst) ==
  LET r == MajorVersion(req)
      i == MajorVersion(inst)
  IN /\ r.known
     /\ i.known
     /\ (r.major <= 20) = (i.major <= 20)

\* compatible that compares the major segments as text before parsing them.
compatible_SameText(req, inst) ==
  LET r == MajorVersion(req)
      i == MajorVersion(inst)
  IN \/ SplitFirst(req) = SplitFirst(inst)
     \/ /\ r.known
        /\ i.known
        /\ Bucket(r.major) = Bucket(i.major)

compatible(req, inst) ==
  LET r == MajorVersion(req)
      i == MajorVersion(inst)
  IN /\ r.known
     /\ i.known
     /\ Bucket(r.major) = Bucket(i.major)

Record(events) == SubSeq(log \o events, 1, IF Len(log \o events) < MaxLog
                                            THEN Len(log \o events) ELSE MaxLog)

\* The caller invokes the Reconciler with a required version; the registry
\* holds whatever it holds at that moment.
ReconcileStart ==
  /\ rstate = "IDLE"
  /\ \E r \in ReqVersions, i \in RegVersions \cup {NotFound} :
       /\ required' = r
       /\ installed' = i
  /\ rstate' = "CHECKING"
  /\ log' = <<>>
  /\ firstInstall' = None
  /\ lastCompat' = FALSE
  /\ callerRan' = FALSE
  /\ UNCHANGED guiVars

\* CHECKING with SATISFIED only on an exact version match.
Checking_ExactMatch ==
  /\ rstate = "CHECKING"
  /\ lastCompat' = compatible(required, installed)
  /\ log' = Record(<<"query">>)
  /\ rstate' = IF installed = required THEN "SATISFIED" ELSE "UPDATING"
  /\ UNCHANGED <<required, installed, firstInstall, callerRan>>
  /\ UNCHANGED guiVars

\* CHECKING that gives up after two queries.
Checking_MaxRetries ==
  /\ rstate = "CHECKING"
  /\ lastCompat' = compatible(required, installed)
  /\ log' = Record(<<"query">>)
  /\ rstate' = IF compatible(required, installed) THEN "SATISFIED"
               ELSE IF Len(log) >= 3 THEN "FAILED" ELSE "UPDATING"
  /\ UNCHANGED <<required, installed, firstInstall, callerRan>>
  /\ UNCHANGED guiVars

\* CHECKING: query the registry, evaluate the compatibility predicate.
Checking ==
  /\ rstate = "CHECKING"
  /\ lastCompat' = compatible(required, installed)
  /\ log' = Record(<<"query">>)
  /\ rstate' = IF compatible(required, installed) THEN "SATISFIED" ELSE "UPDATING"
  /\ UNCHANGED <<required, installed, firstInstall, callerRan>>
  /\ UNCHANGED guiVars

\* UPDATING: uninstall the entry if there is one (skip otherwise), settle,
\* install, settle, back to CHECKING.  What the registry reports after the
\* installer has run is the installer's doing: any version, or still nothing.
Updating ==
  /\ rstate = "UPDATING"
  /\ \E after \in RegVersions \cup {NotFound} :
       /\ installed' = after
       /\ firstInstall' = IF firstInstall = None THEN after ELSE firstInstall
  /\ log' = Record(<<IF installed = NotFound THEN "skip" ELSE "uninstall", "install">>)
  /\ rstate' = "CHECKING"
  /\ UNCHANGED <<required, lastCompat, callerRan>>
  /\ UNCHANGED guiVars

\* The Reconciler has returned: the caller executes its command.
CallerExecute ==
  /\ rstate = "SATISFIED"
  /\ ~callerRan
  /\ callerRan' = TRUE
  /\ UNCHANGED <<rstate, required, installed, log, firstInstall, lastCompat>>
  /\ UNCHANGED guiVars

\* The user action is over.
CallerReturn ==
  /\ rstate = "SATISFIED"
  /\ callerRan
  /\ rstate' = "IDLE"
  /\ UNCHANGED <<required, installed, log, firstInstall, lastCompat, callerRan>>
  /\ UNCHANGED guiVars

NextRec ==
  \/ ReconcileStart
  \/ Checking
  \/ Updating
  \/ CallerExecute
  \/ CallerReturn

SpecRec == Init /\ [][NextRec]_vars

\* The Reconciler and its caller are one synchronous thread: each step that
\* can be taken is taken.
FairSpecRec ==
  /\ SpecRec
  /\ WF_vars(Checking)
  /\ WF_vars(Updating)
  /\ WF_vars(CallerExecute)

(***************************************************************************)
(* Properties of on_change                                                 *)
(***************************************************************************)
\* What the last run of on_change looked up.
CallVersion == get_environment_version(config, call.customer, call.environment)
CallAttributes == get_environment_attributes(config, call.customer, call.environment)
CallMajor == SplitFirst(CallVersion)
CallScript == ScriptName(CallMajor, call.type)

\* The last run of on_change passed its three guards (selection complete,
\* version found, script file exists) and reached command assembly.
Assembled == call.outcome # "none" /\ call.exists

\* The named parameters of a command: everything after powershell -File <script>.
Params(cmd) == SubSeq(cmd, 4, Len(cmd))
Invokes(cmd, script) == Len(cmd) >= 3 /\ SubSeq(cmd, 1, 3) = <<"powershell", "-File", script>>

CustomerEnvironmentParams ==
  <<"-CustomerName", call.customer, "-Environment", call.environment>>

WorkstationCurrentParams ==
  IF Get(CallAttributes, "install_path") = ""
  THEN CustomerEnvironmentParams \o <<"-AppService", Get(CallAttributes, "appservice")>>
  ELSE CustomerEnvironmentParams \o <<"-AppService", Get(CallAttributes, "appservice"),
                                      "-InstallPath", Get(CallAttributes, "install_path")>>

QDriveParams == CustomerEnvironmentParams \o <<"-QDrive", Get(CallAttributes, "qdrive")>>

\* C1 (as claimed): whenever on_change has handed a command to process
\* execution, the Prerequisite Reconciler has been run and is in SATISFIED.
C1_ExecutionAfterSatisfied == call.ran # <<>> => rstate = "SATISFIED"

\* C1 (amended): on_change hands the command to process execution as soon as
\* the selection is complete, a version was found and the script file exists;
\* it never invokes the Reconciler, which is still idle with no registry query
\* made when the command runs.
C1_ExecutionWithoutReconciler ==
  call.ran # <<>> =>
    /\ call.customer # "" /\ call.environment # "" /\ call.type # ""
    /\ Truthy(CallVersion)
    /\ call.exists
    /\ rstate = "IDLE" /\ log = <<>> /\ ~lastCompat

C1_Witness == call.ran # <<>> /\ call.outcome = "returned" /\ rstate = "IDLE"

\* C2 (as claimed): for Workstation and every version whose major is an
\* integer >= 20, the command carries customer, environment, appservice, and
\* install_path too exactly when it is non-empty.
C2_WorkstationCurrentBucket ==
  (Assembled /\ call.type = "Workstation" /\ IsInt(CallMajor) /\ IntVal(CallMajor) >= 20) =>
    /\ Invokes(call.ps_command, CallScript)
    /\ Params(call.ps_command) = WorkstationCurrentParams

\* C2 (amended): for Workstation and a version whose major segment is exactly
\* "23", the command carries customer, environment, appservice, and
\* install_path (last) exactly when that attribute is non-empty.
C2_Workstation23 ==
  (Assembled /\ call.type = "Workstation" /\ Str(CallMajor) = "23") =>
    /\ Invokes(call.ps_command, CallScript)
    /\ Params(call.ps_command) = WorkstationCurrentParams
    /\ call.ran = <<call.ps_command>>

C2_Witness ==
  /\ Assembled /\ call.type = "Workstation" /\ Str(CallMajor) = "23"
  /\ Get(CallAttributes, "install_path") # ""
  /\ SubSeq(call.ps_command, 10, 11) = <<"-InstallPath", "D:\\App">>

\* C3 (as claimed): for Workstation and every version whose major is an
\* integer < 20, the command carries customer, environment and qdrive.
C3_WorkstationLegacyBucket ==
  (Assembled /\ call.type = "Workstation" /\ IsInt(CallMajor) /\ IntVal(CallMajor) < 20) =>
    /\ Invokes(call.ps_command, CallScript)
    /\ Params(call.ps_command) = QDriveParams

\* C3 (amended): for Workstation and a version whose major segment is exactly
\* "5", the command carries customer, environment and qdrive.
C3_Workstation5 ==
  (Assembled /\ call.type = "Workstation" /\ Str(CallMajor) = "5") =>
    /\ Invokes(call.ps_command, CallScript)
    /\ Params(call.ps_command) = QDriveParams
    /\ call.ran = <<call.ps_command>>

C3_Witness ==
  /\ Assembled /\ call.type = "Workstation" /\ Str(CallMajor) = "5"
  /\ call.ran # <<>> /\ Get(CallAttributes, "qdrive") # ""

\* C4: for Interface and Service, whatever the version and whatever
\* install_path and appservice are, the command carries customer, environment
\* and qdrive ('' when the attribute is absent).
C4_InterfaceService ==
  (Assembled /\ call.type \in {"Interface", "Service"}) =>
    /\ Invokes(call.ps_command, CallScript)
    /\ Params(call.ps_command) =
         <<"-CustomerName", call.customer, "-Environment", call.environment,
           "-QDrive", IF "qdrive" \in DOMAIN CallAttributes
                      THEN CallAttributes["qdrive"] ELSE "">>
    /\ call.ran = <<call.ps_command>>

C4_Witness ==
  /\ Assembled /\ call.type = "Service" /\ ~IsInt(CallMajor)
  /\ "install_path" \in DOMAIN CallAttributes
  /\ call.ran # <<>>

\* A (type, major version) pair that no branch of on_change assigns a command to.
Uncovered ==
  ~ \/ call.type = "Workstation" /\ Str(CallMajor) \in {"23", "5"}
    \/ call.type \in {"Interface", "Service"}

\* C5: for a combination no branch covers, on_change is a silent no-op: it
\* builds no command, runs no process, shows nothing and returns normally.
C5_UnsupportedIsNoOp ==
  (Assembled /\ Uncovered) =>
    /\ call.ps_command = Unbound
    /\ call.ran = <<>>
    /\ call.messages = <<>>
    /\ call.outcome = "returned"

\* C6: when no version is found for the selection (lookup gives None or ''),
\* on_change shows "Version not found!", builds no command, runs no process,
\* and leaves the selection as it was; a customer or an environment that the
\* configuration does not hold has no version.
C6_StateInv ==
  /\ (/\ call.outcome # "none"
      /\ call.customer # "" /\ call.environment # "" /\ call.type # ""
      /\ CallVersion \in {None, <<>>}) =>
       /\ call.messages = <<"Version not found!">>
       /\ call.ps_command = Unbound
       /\ call.ran = <<>>
       /\ call.outcome = "returned"
  /\ \A e \in {"Prod", "Nowhere"} :
       get_environment_version(config, "Nobody", e) = None
  /\ \A i \in 1..Len(config.customers) :
       get_environment_version(config, config.customers[i].name, "Nowhere") = None

C6_VersionNotFound ==
  /\ [] C6_StateInv
  /\ [][call' # call =>
          /\ customer_var' = customer_var
          /\ environment_var' = environment_var
          /\ type_var' = type_var
          /\ environment_values' = environment_values]_vars

C6_Witness ==
  /\ call.messages = <<"Version not found!">>
  /\ call.environment = "Blank"
  /\ customer_var = "Acme" /\ environment_var = "Blank" /\ type_var # ""

(***************************************************************************)
(* Properties of the compatibility predicate and the Reconciler            *)
(***************************************************************************)
\* The Reconciler has just evaluated compatible(required, installed): the
\* result is in lastCompat and the registry is as it was queried.
Evaluated == rstate \in {"UPDATING", "SATISFIED"}

ReqMajor == SplitFirst(required)
InstMajor == SplitFirst(installed)

\* C7: when both major segments are integers, compatible is true exactly when
\* both majors are below 20 or both are 20 or above; 20 itself counts as
\* current, and zero and negative majors count as legacy.
C7_SameBucket ==
  (Evaluated /\ IsInt(ReqMajor) /\ IsInt(InstMajor)) =>
    /\ lastCompat = ((IntVal(ReqMajor) < 20) = (IntVal(InstMajor) < 20))
    /\ (IntVal(ReqMajor) = 20 /\ IntVal(InstMajor) \in 21..99) => lastCompat
    /\ (IntVal(ReqMajor) <= 0 /\ IntVal(InstMajor) \in 1..19) => lastCompat

C7_Witness ==
  /\ Evaluated /\ required = V_20_0 /\ installed = V_19_9 /\ ~lastCompat
  /\ rstate = "UPDATING"

\* C8: when the major segment of the required or of the installed version is
\* no integer, compatible is false, also when the two strings are the same.
C8_FailClosed ==
  (Evaluated /\ (~IsInt(ReqMajor) \/ ~IsInt(InstMajor))) =>
    /\ ~lastCompat
    /\ rstate = "UPDATING"

C8_Witness ==
  /\ Evaluated /\ required = V_abc_1 /\ installed = V_abc_1 /\ ~lastCompat

\* The first query found an incompatible entry, it was uninstalled, and the
\* first install made the registry report a version compatible with the
\* required one.
C9_Case ==
  /\ Len(log) >= 3
  /\ SubSeq(log, 1, 3) = <<"query", "uninstall", "install">>
  /\ firstInstall # None
  /\ compatible(required, firstInstall)

\* C9: in that case the Reconciler does one uninstall, one install, queries
\* again and ends in SATISFIED; it starts no second cycle.
C9_StateInv ==
  C9_Case =>
    \/ log = <<"query", "uninstall", "install">> /\ rstate = "CHECKING"
    \/ /\ log = <<"query", "uninstall", "install", "query">>
       /\ rstate \in {"SATISFIED", "IDLE"}
       /\ lastCompat

C9_OneCycle ==
  /\ [] C9_StateInv
  /\ (C9_Case /\ rstate = "CHECKING") ~> (rstate = "SATISFIED")

C9_Witness ==
  /\ C9_Case
  /\ rstate = "SATISFIED"
  /\ required = V_5_8_22
  /\ installed = V_0_1
  /\ log = <<"query", "uninstall", "install", "query">>

\* Every registry query of the running Reconciler finds a version that is
\* incompatible with the required one.
AlwaysIncompatible == rstate # "IDLE" => ~compatible(required, installed)

\* C10: as long as every query reports an incompatible version, the
\* Reconciler goes round CHECKING -> UPDATING -> CHECKING for ever, reaches no
\* terminal state, and the caller's command is never executed.
C10_UnboundedLoop ==
  ([] AlwaysIncompatible /\ <>(rstate # "IDLE")) =>
    /\ []<>(rstate = "UPDATING")
    /\ []<>(rstate = "CHECKING")
    /\ [](rstate \in {"IDLE", "CHECKING", "UPDATING"})
    /\ [](~callerRan)

C10_Witness ==
  /\ required = V_abc_1
  /\ rstate = "UPDATING"
  /\ Len(log) = MaxLog
  /\ ~callerRan

(***************************************************************************)
(* Properties of the lookups and of the guards of on_change                *)
(***************************************************************************)
\* The environments of the first customer that has the name of the last call.
CallCustomerIndex ==
  CHOOSE i \in 1..Len(config.customers) :
    /\ config.customers[i].name = call.customer
    /\ \A j \in 1..(i - 1) : config.customers[j].name # call.customer
CallEnvironments == config.customers[CallCustomerIndex].environments

\* The first of them that has the environment name of the last call.
CallEnvIndex ==
  CHOOSE i \in 1..Len(CallEnvironments) :
    /\ CallEnvironments[i].name = call.environment
    /\ \A j \in 1..(i - 1) : CallEnvironments[j].name # call.environment
CallEnv == CallEnvironments[CallEnvIndex]

\* C11 (as claimed): the script of the command is the filename that the
\* configuration stores under the requested type key of the selected
\* environment.
C11_ScriptFromConfig ==
  (call.ran # <<>> /\ call.type \in DOMAIN CallEnv) =>
    call.ran[1][3] = CallEnv[call.type]

\* C11 (amended): the script of the command is never read from the
\* configuration: it is <major>_<type>.ps1, with <major> the text before the
\* first '.' of the required version; the required version is the version of
\* the first environment with the selected name (first match wins) of the
\* first customer with the selected name.
C11_ScriptFromVersion ==
  call.ran # <<>> =>
    /\ CallVersion = CallEnv.version
    /\ call.ran[1][3] = Str(SplitFirst(CallEnv.version)) \o "_" \o call.type \o ".ps1"

C11_Witness ==
  /\ call.customer = "Beta" /\ call.environment = "Prod" /\ call.type = "Interface"
  /\ call.ran # <<>>
  /\ call.ran[1][3] = "19_Interface.ps1"

\* The last run of on_change found the selection complete and a version.
SelectionComplete == call.customer # "" /\ call.environment # "" /\ call.type # ""
VersionFound == CallVersion \notin {None, <<>>}
CallScriptName == Str(CallMajor) \o "_" \o call.type \o ".ps1"

\* C12: when no script is available for the requested type and version (the
\* file <major>_<type>.ps1 does not exist), on_change shows a not-found error
\* that names the script, runs no process and returns normally.
C12_ScriptNotFound ==
  (call.outcome # "none" /\ SelectionComplete /\ VersionFound /\ ~call.exists) =>
    /\ call.messages = <<"Script not found: " \o CallScriptName>>
    /\ call.ran = <<>>
    /\ call.ps_command = Unbound
    /\ call.outcome = "returned"

C12_Witness ==
  /\ call.outcome = "returned" /\ SelectionComplete /\ VersionFound /\ ~call.exists
  /\ call.type = "Service"
  /\ call.messages = <<"Script not found: 22_Service.ps1">>

\* C13: one run of on_change starts the external process at most once; when
\* the process exits non-zero, one error message is shown and the handler
\* returns normally; no run of on_change changes the selection.
C13_StateInv ==
  /\ Len(call.ran) <= 1
  /\ call.exit # "none" => Len(call.ran) = 1
  /\ call.exit = "nonzero" =>
       /\ call.messages = <<"Error running script">>
       /\ call.outcome = "returned"

C13_NoRetry ==
  /\ [] C13_StateInv
  /\ [][call' # call =>
          /\ <<customer_var', environment_var', type_var'>> =
               <<customer_var, environment_var, type_var>>
          /\ <<call'.customer, call'.environment, call'.type>> =
               <<customer_var', environment_var', type_var'>>]_vars

C13_Witness ==
  /\ call.exit = "nonzero"
  /\ call.ran = <<call.ps_command>>
  /\ customer_var = call.customer /\ environment_var = call.environment
  /\ type_var = call.type

\* C14 (as claimed): for a version whose leading segment is no number, the
\* handler ends normally and the segment chooses no script and no command:
\* nothing is run.
C14_SentinelNeverUsed ==
  (call.outcome # "none" /\ SelectionComplete /\ VersionFound /\ ~IsInt(CallMajor)) =>
    /\ call.outcome = "returned"
    /\ call.ran = <<>>

\* C14 (amended): on_change takes the major version as the text before the
\* first '.', with no numeric parse and no "unknown" value: a leading segment
\* that is no number names the script as it stands, and when that file exists
\* the Interface and Service branches run it.
C14_RawSegmentUsed ==
  (call.outcome # "none" /\ SelectionComplete /\ VersionFound /\ ~IsInt(CallMajor)) =>
    /\ ~call.exists => call.messages = <<"Script not found: " \o CallScriptName>>
    /\ (call.exists /\ call.type \in {"Interface", "Service"}) =>
         /\ Len(call.ran) = 1
         /\ call.ran[1][3] = CallScriptName
    /\ (call.exists /\ call.type = "Workstation") =>
         /\ call.ran = <<>>
         /\ call.outcome = "UnboundLocalError"

C14_Witness ==
  /\ call.environment = "Bad" /\ call.type = "Interface"
  /\ call.ran # <<>>
  /\ call.ran[1][3] = "abc_Interface.ps1"

\* The names of the environments of the first customer with a name.
EnvironmentsOf(customer_name) ==
  Range(EnvironmentNames(get_customer_environments(config, customer_name)))

\* C15: the selected environment is empty or an environment of the selected
\* customer, the environment dropdown offers that customer's environments,
\* and on_change never reads an environment of another customer.
C15_EnvironmentOfCustomer ==
  /\ environment_var = "" \/ environment_var \in EnvironmentsOf(customer_var)
  /\ customer_var # "" => Range(environment_values) = EnvironmentsOf(customer_var)
  /\ (call.outcome # "none" /\ call.environment # "") =>
       call.environment \in EnvironmentsOf(call.customer)

C15_Witness ==
  /\ call.customer = "Acme" /\ call.environment = "Legacy"
  /\ customer_var = "Beta" /\ environment_var = ""
  /\ "Legacy" \notin Range(environment_values)

\* C16: on_change starts a process only when customer, environment and type
\* are all non-empty, a version was found and the file <major>_<type>.ps1
\* exists, and the process is started on that file; when one of these guards
\* fails it shows exactly one error message and starts no process.
C16_GuardedExecution ==
  /\ call.ran # <<>> =>
       /\ SelectionComplete /\ VersionFound /\ call.exists
       /\ call.ran[1][3] = CallScriptName
  /\ (call.outcome # "none" /\ ~(SelectionComplete /\ VersionFound /\ call.exists)) =>
       /\ Len(call.messages) = 1
       /\ call.ran = <<>>
       /\ call.exit = "none"

C16_Witness ==
  /\ call.outcome = "returned"
  /\ call.customer # "" /\ call.environment # "" /\ call.type = ""
  /\ call.messages = <<"Please select all options!">>

(***************************************************************************)
(* Properties of the stealth window                                        *)
(***************************************************************************)
\* C17: on_leave leaves -alpha as it is when the focus is on one of the three
\* comboboxes or on a combobox popup, and sets it to 0.01 otherwise.
C17_LeaveKeepsFocusedWindow ==
  [][on_leave =>
       IF focus \in {"customer_dropdown", "environment_dropdown", "type_dropdown",
                     "combobox.popdown"}
       THEN alpha' = alpha
       ELSE alpha' = AlphaHidden]_vars

C17_Witness ==
  /\ alpha = AlphaShown
  /\ ~mouse_inside
  /\ focus = "combobox.popdown"

\* C18: when a combobox loses the focus, the window is hidden only if the
\* mouse is outside the window and the focus is on no combobox and no popup; a
\* focus-out with the mouse inside the window never hides it.
C18_UnfocusHidesOnlyOutside ==
  [][(on_combobox_unfocus /\ alpha = AlphaShown /\ alpha' = AlphaHidden) =>
       /\ ~mouse_inside
       /\ focus' \notin Comboboxes \cup Popdowns]_vars

TypeOK ==
  /\ customer_var \in {""} \cup {config.customers[i].name : i \in 1..Len(config.customers)}
  /\ type_var \in {""} \cup Range(Types)
  /\ call.outcome \in {"none", "returned", "UnboundLocalError", "OSError"}
====
